---------------------------- MODULE Spec2Model ----------------------------
(***************************************************************************)
(* Model of the reply-classification engine of db-results.py               *)
(* (class DataBrokerCleaner): scan_requests, analyze_thread, print_report  *)
(* and the text helpers they call.                                         *)
(*                                                                         *)
(* Text is modelled as a sequence of one-character strings, so that        *)
(* lower(), the substring test `k in s`, parseaddr and the regular         *)
(* expressions are computed rather than assumed.                           *)
(***************************************************************************)
EXTENDS Integers, Sequences, FiniteSets, TLC

(***************************************************************************)
(* Text primitives (Python str operations used by the source).             *)
(***************************************************************************)
\* the lower-case letter of every upper-case letter
LowerOf ==
  "A" :> "a" @@ "B" :> "b" @@ "C" :> "c" @@ "D" :> "d" @@ "E" :> "e" @@ "F" :> "f" @@
  "G" :> "g" @@ "H" :> "h" @@ "I" :> "i" @@ "J" :> "j" @@ "K" :> "k" @@ "L" :> "l" @@
  "M" :> "m" @@ "N" :> "n" @@ "O" :> "o" @@ "P" :> "p" @@ "Q" :> "q" @@ "R" :> "r" @@
  "S" :> "s" @@ "T" :> "t" @@ "U" :> "u" @@ "V" :> "v" @@ "W" :> "w" @@ "X" :> "x" @@
  "Y" :> "y" @@ "Z" :> "z"

\* one byte that is not valid UTF-8 (e.g. 0xFF)
BadByte == "0xFF"

Whitespace == {" ", "\t", "\n", "\r"}

LowerChar(c) == IF c \in DOMAIN LowerOf THEN LowerOf[c] ELSE c

\* str.lower()
Lower(s) == [i \in 1..Len(s) |-> LowerChar(s[i])]

\* s[i:].startswith(p), 1-based
StartsAt(s, i, p) ==
  /\ i + Len(p) - 1 <= Len(s)
  /\ \A j \in 1..Len(p) : s[i + j - 1] = p[j]

\* Python `p in s`
Contains(s, p) == \E i \in 1..(Len(s) - Len(p) + 1) : StartsAt(s, i, p)

\* any(k in s for k in kws)
AnyIn(kws, s) == \E k \in 1..Len(kws) : Contains(s, kws[k])

\* the characters of s at the positions k with keep[k], in order
Indexed(s) == [k \in 1..Len(s) |-> <<k, s[k]>>]

KeepAt(s, keep) ==
  LET kept == SelectSeq(Indexed(s), LAMBDA p : keep[p[1]])
  IN  [k \in 1..Len(kept) |-> kept[k][2]]

\* " ".join(body.split()): the words (maximal runs of non-whitespace) joined
\* by one space; of a run of whitespace between two words the first
\* character stays, as a space
NormalizeWhitespace(s) ==
  LET IsWordChar(k) == s[k] \notin Whitespace
      IsJoint(k) == /\ s[k] \in Whitespace
                    /\ k > 1 /\ s[k - 1] \notin Whitespace
                    /\ \E m \in (k + 1)..Len(s) : s[m] \notin Whitespace
      spaced == [k \in 1..Len(s) |-> IF IsJoint(k) THEN " " ELSE s[k]]
  IN  KeepAt(spaced, [k \in 1..Len(s) |-> IsWordChar(k) \/ IsJoint(k)])


(***************************************************************************)
(* The keyword lists of __init__ (self.keywords).                           *)
(***************************************************************************)

\* self.keywords['bounce']
keywords_bounce ==
  <<
    <<"m","a","i","l","e","r","-","d","a","e","m","o","n">>,
    <<"d","e","l","i","v","e","r","y"," ","s","t","a","t","u","s"," ","n","o","t","i","f","i","c","a","t","i","o","n">>,
    <<"f","a","i","l","u","r","e"," ","n","o","t","i","c","e">>,
    <<"u","n","d","e","l","i","v","e","r","a","b","l","e">>,
    <<"b","l","o","c","k","e","d">>,
    <<"n","o"," ","l","o","n","g","e","r"," ","m","o","n","i","t","o","r","e","d">>,
    <<"e","m","a","i","l"," ","b","o","x"," ","i","s"," ","b","e","i","n","g"," ","r","e","t","i","r","e","d">>
  >>

\* self.keywords['web_only']
keywords_web_only ==
  <<
    <<"f","i","l","l"," ","o","u","t">>,
    <<"w","e","b"," ","f","o","r","m">>,
    <<"o","n","l","i","n","e"," ","f","o","r","m">>,
    <<"v","i","s","i","t"," ","o","u","r"," ","w","e","b","s","i","t","e">>,
    <<"p","o","r","t","a","l">>,
    <<"c","l","i","c","k"," ","h","e","r","e">>,
    <<"s","u","b","m","i","t"," ","a"," ","r","e","q","u","e","s","t">>,
    <<"u","s","e"," ","o","u","r"," ","f","o","r","m">>,
    <<"o","p","t","-","o","u","t"," ","p","a","g","e">>,
    <<"s","e","t"," ","y","o","u","r"," ","p","r","e","f","e","r","e","n","c","e","s">>,
    <<"s","u","b","m","i","t"," ","a"," ","t","i","c","k","e","t">>,
    <<"u","s","i","n","g"," ","t","h","i","s"," ","f","o","r","m">>,
    <<"d","a","t","a"," ","s","u","b","j","e","c","t"," ","r","e","q","u","e","s","t","s"," ","c","a","n"," ","b","e"," ","f","i","l","e","d"," ","a","t">>,
    <<"i","n","f","o","r","m","a","t","i","o","n"," ","c","o","n","t","r","o","l"," ","l","i","n","k">>,
    <<"c","o","m","p","l","e","t","e"," ","t","h","e"," ","f","o","r","m">>,
    <<"s","u","b","m","i","t"," ","y","o","u","r"," ","r","e","q","u","e","s","t">>,
    <<"o","p","t","-","o","u","t"," ","p","r","o","c","e","s","s">>,
    <<"d","o"," ","n","o","t"," ","s","e","l","l"," ","m","y"," ","p","e","r","s","o","n","a","l"," ","d","a","t","a">>,
    <<"d","e","s","i","g","n","a","t","e","d"," ","m","e","t","h","o","d">>,
    <<"v","i","s","i","t"," ","h","t","t","p","s">>,
    <<"u","n","a","u","t","h","o","r","i","z","e","d"," ","c","h","a","n","n","e","l","s">>,
    <<"m","o","n","i","t","o","r","e","d"," ","f","o","r"," ","g","e","n","e","r","a","l"," ","p","r","i","v","a","c","y"," ","i","n","q","u","i","r","i","e","s"," ","o","n","l","y">>,
    <<"r","e","m","o","v","a","l","s"," ","a","r","e"," ","n","o","w"," ","d","o","n","e"," ","o","n"," ","t","h","e"," ","w","e","b","s","i","t","e","s">>,
    <<"o","p","t","-","o","u","t"," ","f","o","r","m">>
  >>

\* self.keywords['success']
keywords_success ==
  <<
    <<"c","o","n","f","i","r","m","e","d">>,
    <<"s","u","c","c","e","s","s","f","u","l","l","y"," ","r","e","m","o","v","e","d">>,
    <<"d","a","t","a"," ","h","a","s"," ","b","e","e","n"," ","d","e","l","e","t","e","d">>,
    <<"r","e","q","u","e","s","t"," ","p","r","o","c","e","s","s","e","d">>,
    <<"c","o","m","p","l","e","t","e","d">>,
    <<"o","p","t","e","d"," ","o","u","t">>,
    <<"s","u","p","p","r","e","s","s","e","d">>,
    <<"r","e","c","o","r","d","s"," ","h","a","v","e"," ","b","e","e","n"," ","r","e","m","o","v","e","d">>,
    <<"i","n","f","o","r","m","a","t","i","o","n"," ","h","a","s"," ","b","e","e","n"," ","r","e","m","o","v","e","d">>,
    <<"a","l","r","e","a","d","y"," ","b","e","e","n"," ","d","e","l","e","t","e","d">>,
    <<"s","u","p","p","r","e","s","s","i","o","n"," ","l","i","s","t">>,
    <<"n","o"," ","l","o","n","g","e","r"," ","a","v","a","i","l","a","b","l","e">>
  >>

\* self.keywords['pending']
keywords_pending ==
  <<
    <<"r","e","c","e","i","v","e","d"," ","y","o","u","r"," ","r","e","q","u","e","s","t">>,
    <<"v","e","r","i","f","i","c","a","t","i","o","n">>,
    <<"c","l","i","c","k"," ","t","o"," ","v","e","r","i","f","y">>,
    <<"t","i","c","k","e","t"," ","h","a","s"," ","b","e","e","n"," ","c","r","e","a","t","e","d">>,
    <<"c","a","s","e"," ","n","u","m","b","e","r">>,
    <<"r","e","v","i","e","w","i","n","g">>,
    <<"i","n"," ","p","r","o","c","e","s","s">>,
    <<"u","n","d","e","r"," ","p","r","o","c","e","s","s">>,
    <<"m","e","s","s","a","g","e"," ","h","a","s"," ","b","e","e","n"," ","r","e","c","e","i","v","e","d">>,
    <<"m","e","s","s","a","g","e"," ","w","i","l","l"," ","b","e"," ","s","o","o","n"," ","a","t","t","e","n","d","e","d"," ","t","o">>,
    <<"h","a","s"," ","b","e","e","n"," ","r","e","c","e","i","v","e","d">>,
    <<"b","e","i","n","g"," ","r","e","v","i","e","w","e","d">>,
    <<"h","a","s"," ","b","e","e","n"," ","r","a","i","s","e","d">>,
    <<"a","c","k","n","o","w","l","e","d","g","m","e","n","t"," ","o","f"," ","d","e","l","e","t","i","o","n">>
  >>

\* self.keywords['not_found']
keywords_not_found ==
  <<
    <<"n","o","t"," ","f","o","u","n","d">>,
    <<"n","o"," ","r","e","c","o","r","d">>,
    <<"u","n","a","b","l","e"," ","t","o"," ","l","o","c","a","t","e">>,
    <<"n","o"," ","i","n","f","o","r","m","a","t","i","o","n">>,
    <<"n","o"," ","p","e","r","s","o","n","a","l"," ","i","n","f","o","r","m","a","t","i","o","n">>,
    <<"d","o"," ","n","o","t"," ","m","a","i","n","t","a","i","n">>,
    <<"n","o"," ","m","a","t","c","h"," ","f","o","u","n","d">>,
    <<"n","o"," ","d","a","t","a"," ","f","o","u","n","d">>,
    <<"n","o"," ","l","o","n","g","e","r"," ","m","a","i","n","t","a","i","n","s">>,
    <<"d","o"," ","n","o","t"," ","h","a","v","e"," ","y","o","u","r"," ","i","n","f","o","r","m","a","t","i","o","n">>,
    <<"u","n","a","b","l","e"," ","t","o"," ","p","u","l","l"," ","u","p">>,
    <<"d","o","e","s"," ","n","o","t"," ","p","o","s","s","e","s","s">>,
    <<"d","o","e","s"," ","n","o","t"," ","h","a","v","e"," ","a","n","y">>,
    <<"n","o"," ","d","a","t","a"," ","o","n"," ","t","h","i","s"," ","i","n","d","i","v","i","d","u","a","l">>,
    <<"u","n","a","b","l","e"," ","t","o"," ","f","i","n","d"," ","y","o","u","r"," ","a","c","c","o","u","n","t">>,
    <<"c","o","u","l","d"," ","n","o","t"," ","l","o","c","a","t","e">>,
    <<"d","o","e","s"," ","n","o","t"," ","c","o","m","p","i","l","e">>,
    <<"d","o","e","s"," ","n","o","t"," ","h","a","v","e"," ","a","n","y"," ","d","a","t","a","b","a","s","e">>,
    <<"d","o"," ","n","o","t"," ","h","a","v","e"," ","y","o","u","r"," ","p","r","o","f","i","l","e"," ","i","n","f","o","r","m","a","t","i","o","n">>
  >>


(***************************************************************************)
(* Message headers and bodies as the email package hands them over.        *)
(* A header is absent or a list of (content, charset) parts, the result of *)
(* email.header.decode_header; charset "" is a part with no charset.       *)
(***************************************************************************)
NoHeader == [present |-> FALSE, parts |-> <<>>]

Hdr(s) == [present |-> TRUE, parts |-> <<[content |-> s, charset |-> ""]>>]

HdrEnc(s, cs) == [present |-> TRUE, parts |-> <<[content |-> s, charset |-> cs]>>]

\* charsets Python has a codec for; any other name gives LookupError
KnownCodecs == {"utf-8", "iso-8859-1"}

\* bytes.decode('iso-8859-1'): every byte is a character of that charset
DecodeLatin1(bytes) == [k \in 1..Len(bytes) |-> IF bytes[k] = BadByte THEN "U+00FF" ELSE bytes[k]]

\* bytes.decode('utf-8', errors='ignore'): undecodable bytes are dropped
DecodeIgnore(bytes) == SelectSeq(bytes, LAMBDA c : c # BadByte)

\* bytes.decode('utf-8'): UnicodeDecodeError on a byte that is not UTF-8
DecodeStrictFails(bytes) == \E i \in 1..Len(bytes) : bytes[i] = BadByte

Ok(v) == [raised |-> FALSE, val |-> v]

Raised == [raised |-> TRUE, val |-> <<>>]

\* one (content, encoding) pair of decode_str's loop
DecodePart(p) ==
  IF p.charset = "" THEN Ok(DecodeIgnore(p.content))
  ELSE IF p.charset \notin KnownCodecs THEN Ok(DecodeIgnore(p.content))
  ELSE IF p.charset = "iso-8859-1" THEN Ok(DecodeLatin1(p.content))
  ELSE IF DecodeStrictFails(p.content) THEN Raised
  ELSE Ok(p.content)

RECURSIVE DecodeParts(_, _, _)
DecodeParts(parts, i, acc) ==
  IF i > Len(parts) THEN Ok(acc)
  ELSE LET d == DecodePart(parts[i])
       IN  IF d.raised THEN Raised
           ELSE DecodeParts(parts, i + 1, acc \o d.val)

\* decode_str(text): the decoded header, or the exception it lets through
decode_str(h) ==
  IF ~h.present \/ h.parts = <<>> THEN Ok(<<>>)
  ELSE DecodeParts(h.parts, 1, <<>>)

\* re.sub('<[^<]+?>', ' ', html): a tag is "<", one or more characters other
\* than "<" (as few as possible), ">". TagEnd is the position of the ">" that
\* closes a tag opened at i, or 0 when no tag opens at i. A "<" never lies
\* inside a tag, so the tags are exactly the matches found left to right.
Least(S) == CHOOSE k \in S : \A m \in S : k <= m

TagEnd(s, i) ==
  LET closers == {j \in (i + 2)..Len(s) : s[j] = ">"}
      openers == {j \in (i + 1)..Len(s) : s[j] = "<"}
  IN  IF s[i] = "<" /\ closers # {}
           /\ (openers = {} \/ Least(closers) < Least(openers))
        THEN Least(closers)
        ELSE 0

StripTags(s) ==
  LET InTag(k) == \E t \in 1..(k - 1) : TagEnd(s, t) >= k
      spaced == [k \in 1..Len(s) |-> IF TagEnd(s, k) # 0 THEN " " ELSE s[k]]
  IN  KeepAt(spaced, [k \in 1..Len(s) |-> ~InTag(k)])

\* part.get_payload(decode=True).decode(): strict UTF-8
PayloadDecodes(part) == ~DecodeStrictFails(part.payload)

\* one iteration of the msg.walk() loop of get_email_body
BodyStep(body, part) ==
  IF part.attachment THEN body
  ELSE IF part.ctype = "text/plain"
    THEN IF PayloadDecodes(part) THEN body \o part.payload ELSE body
  ELSE IF part.ctype = "text/html" /\ body = <<>>
    THEN IF PayloadDecodes(part) THEN body \o StripTags(part.payload) ELSE body
  ELSE body

RECURSIVE WalkParts(_, _, _)
WalkParts(parts, i, body) ==
  IF i > Len(parts) THEN body
  ELSE WalkParts(parts, i + 1, BodyStep(body, parts[i]))

\* get_email_body(msg)
get_email_body(msg) ==
  LET body == IF msg.multipart
                THEN WalkParts(msg.parts, 1, <<>>)
                ELSE IF PayloadDecodes(msg.parts[1]) THEN msg.parts[1].payload
                     ELSE <<>>
  IN  NormalizeWhitespace(body)

\* extract_url(text): re.search(r'(https?://[^\s<>"]+)', text), then
\* rstrip('.,;:)'); NoUrl stands for None
NoUrl == <<>>

UrlStop == Whitespace \cup {"<", ">", "\""}

UrlTrail == {".", ",", ";", ":", ")"}

SchemeLen(s, i) ==
  IF StartsAt(s, i, <<"h","t","t","p",":","/","/">>) THEN 7
  ELSE IF StartsAt(s, i, <<"h","t","t","p","s",":","/","/">>) THEN 8
  ELSE 0

UrlStartsAt(s, i) ==
  /\ SchemeLen(s, i) # 0
  /\ i + SchemeLen(s, i) <= Len(s)
  /\ s[i + SchemeLen(s, i)] \notin UrlStop

\* the last character of the run of URL characters that holds position j
UrlEnd(s, j) == Least({k \in j..Len(s) : k = Len(s) \/ s[k + 1] \in UrlStop})

\* a strip of the last character only
RStrip_OnlyLast(s, chars) ==
  IF s # <<>> /\ s[Len(s)] \in chars THEN SubSeq(s, 1, Len(s) - 1) ELSE s

\* str.rstrip(chars)
RStrip(s, chars) ==
  LET stay == {k \in 1..Len(s) : s[k] \notin chars}
  IN  IF stay = {} THEN <<>>
      ELSE SubSeq(s, 1, CHOOSE k \in stay : \A m \in stay : m <= k)

extract_url(text) ==
  LET starts == {k \in 1..Len(text) : UrlStartsAt(text, k)}
  IN  IF starts = {} THEN NoUrl
      ELSE LET i == Least(starts)
           IN  RStrip(SubSeq(text, i, UrlEnd(text, i + SchemeLen(text, i))), UrlTrail)

\* email.utils.parseaddr on "Name <addr>" or a bare "addr": the address part
ParseAddr(s) ==
  LET opens == {i \in 1..Len(s) : s[i] = "<"}
  IN  IF opens = {} THEN SelectSeq(s, LAMBDA c : c \notin Whitespace)
      ELSE LET o == Least(opens)
               closes == {j \in (o + 1)..Len(s) : s[j] = ">"}
           IN  IF closes = {} THEN <<>>
               ELSE SubSeq(s, o + 1, Least(closes) - 1)

\* extract_email_address(raw_header)
extract_email_address(raw_header) == Lower(ParseAddr(raw_header))


(***************************************************************************)
(* Bounds of the model.                                                    *)
(***************************************************************************)
\* most sent messages the Sent Mail search returns
MaxSent == 3

\* most messages one thread search or one fallback search returns
MaxThread == 2

SeqUpTo(S, k) == UNION {[1..m -> S] : m \in 0..k}

(***************************************************************************)
(* The configuration the run is started with (__main__).                   *)
(***************************************************************************)
\* self.email_address
email_address == <<"m","e","@","x",".","c","o","m">>

\* the e-mail column of the broker directory, in file order
brokers_list == << <<"a","@","b",".","i","o">>, <<"C","@","D",".","i","o">>, <<"e","@","f",".","i","o">>, <<"g","@","h",".","i","o">>, <<"i","@","j",".","i","o">> >>

\* a broker id is an int of broker_map or the string "???"
IntId(k) == [int |-> TRUE, n |-> k, s |-> <<>>]

StrId(t) == [int |-> FALSE, n |-> 0, s |-> t]

UnknownId == StrId(<<"?","?","?">>)

\* self.broker_map.get(clean_to_email, "???"), with broker_map ==
\* {b['email'].lower(): i for i, b in enumerate(brokers_list, 1)}
broker_id_of(clean_to_email) ==
  LET hits == {k \in 1..Len(brokers_list) : Lower(brokers_list[k]) = clean_to_email}
  IN  IF hits = {} THEN UnknownId
      ELSE IntId(CHOOSE k \in hits : \A m \in hits : m <= k)

(***************************************************************************)
(* The mailbox: what the IMAP server may answer.                           *)
(***************************************************************************)
TextPart(s) == [ctype |-> "text/plain", attachment |-> FALSE, payload |-> s]

HtmlPart(s) == [ctype |-> "text/html", attachment |-> FALSE, payload |-> s]

Single(from, subject, part) ==
  [From |-> from, Subject |-> subject, multipart |-> FALSE, parts |-> <<part>>]

Multi(from, subject, parts) ==
  [From |-> from, Subject |-> subject, multipart |-> TRUE, parts |-> parts]

FromBroker == Hdr(<<"A","c","m","e"," ","<","a","@","b",".","i","o",">">>)

FromDaemon == Hdr(<<"M","A","I","L","E","R","-","D","A","E","M","O","N","@","b",".","i","o">>)

FromPostmaster == Hdr(<<"P","o","s","t","M","a","s","t","e","r"," ","<","p","m","@","b",".","i","o",">">>)

FromUser == Hdr(<<"M","e"," ","<","m","e","@","x",".","c","o","m",">">>)

\* another sender, whose address ends with the user's address
FromAlias == Hdr(<<"A","c","m","e"," ","<","a","c","m","e","@","x",".","c","o","m",">">>)

\* the user's own address in capitals
FromUserCaps == Hdr(<<"M","E","@","X",".","C","O","M">>)

\* an encoded word whose bytes are not valid in its stated charset
FromUndecodable == HdrEnc(<<"a","@","b",".","i","o">> \o <<BadByte>>, "utf-8")

SubjectRe == Hdr(<<"R","e",":"," ","o","p","t"," ","o","u","t">>)

SubjectUndecodable == HdrEnc(<<"R", "e", BadByte>>, "utf-8")

\* one phrase of each keyword group that is matched against the body, and a
\* bounce phrase, in capitals or not
PhraseWeb == <<"C","l","i","c","k"," ","H","e","r","e",":"," ","h","t","t","p","s",":","/","/","b",".","i","o","/","o","."," ">>

\* a web-form phrase with a URL that holds capitals, and a URL with no phrase
PhraseWebCaps == <<"P","o","r","t","a","l",":"," ","h","t","t","p","s",":","/","/","b",".","i","o","/","O","p","t","?","I","D","=","5",","," ","o","r"," ","h","t","t","p",":","/","/","c",".","i","o"," ">>

PhraseUrlOnly == <<"S","e","e"," ","h","t","t","p","s",":","/","/","b",".","i","o","/","x"," ">>

PhraseSuccess == <<"C","O","M","P","L","E","T","E","D","."," ">>

PhrasePending == <<"I","n"," ","p","r","o","c","e","s","s","."," ">>

PhraseNotFound == <<"N","o"," ","r","e","c","o","r","d","."," ">>

PhraseBounce == <<"U","n","d","e","l","i","v","e","r","a","b","l","e","."," ">>

PhraseNone == <<"H","e","l","l","o","."," ">>

BodyGroups == {"web_only", "success", "pending", "not_found"}

\* a body holding a phrase of exactly the groups gs (lowest precedence first)
BodyWith(gs) ==
  PhraseNone
    \o (IF "not_found" \in gs THEN PhraseNotFound ELSE <<>>)
    \o (IF "pending" \in gs THEN PhrasePending ELSE <<>>)
    \o (IF "success" \in gs THEN PhraseSuccess ELSE <<>>)
    \o (IF "web_only" \in gs THEN PhraseWeb ELSE <<>>)

\* the messages of a mailbox that a thread search or a fallback search may
\* return
Messages ==
  { Single(FromUser, SubjectRe, TextPart(BodyWith({"success"}))),
    Single(FromBroker, SubjectRe, TextPart(BodyWith({"success"}))),
    Single(FromBroker, SubjectRe, TextPart(BodyWith({"web_only", "success"}))),
    Single(FromBroker, SubjectRe, TextPart(BodyWith({}))),
    Single(FromDaemon, SubjectRe, TextPart(BodyWith({"web_only", "success"}))),
    Single(FromAlias, SubjectRe, TextPart(BodyWith({"success"}))),
    Single(FromUserCaps, SubjectRe, TextPart(BodyWith({"not_found"}))),
    Single(FromUndecodable, SubjectRe, TextPart(BodyWith({}))),
    Single(FromBroker, SubjectUndecodable, TextPart(BodyWith({}))) }

\* a small mailbox, for runs over several requests
FewMessages == { Single(FromBroker, SubjectRe, TextPart(BodyWith({"success"}))) }

NoMessage == Single(NoHeader, NoHeader, TextPart(<<>>))

\* what imap.fetch(mid, '(RFC822)') gives for one message of the mailbox mb:
\* the message, a status other than OK, or an error raised (imaplib error,
\* malformed data)
FetchOutcomes(mb) ==
  {[res |-> "OK", msg |-> m] : m \in mb}
    \cup {[res |-> "NO", msg |-> NoMessage], [res |-> "RAISE", msg |-> NoMessage]}

\* the text of a header as the server holds it
RECURSIVE HeaderText(_, _)
HeaderText(h, k) ==
  IF k > Len(h.parts) THEN <<>> ELSE h.parts[k].content \o HeaderText(h, k + 1)

\* what the server does with the search key FROM "addr": the messages whose
\* From header contains addr, letter case ignored
FromMatches(mb, addr) ==
  {m \in mb :
     \E k \in 1..(Len(HeaderText(m.From, 1)) - Len(addr) + 1) :
       \A j \in 1..Len(addr) :
         LowerChar(HeaderText(m.From, 1)[k + j - 1]) = LowerChar(addr[j])}

\* what imap.search gives: a status and the messages found, in mailbox order
SearchOutcomes(mb) ==
  {[status |-> "OK", found |-> f] : f \in SeqUpTo(FetchOutcomes(mb), MaxThread)}
    \cup {[status |-> "NO", found |-> <<>>], [status |-> "RAISE", found |-> <<>>]}

\* thread ids Gmail assigns (X-GM-THRID)
ThreadIds == {"17", "42"}

DateGood == <<"M","o","n",","," ","0","1"," ","J","a","n"," ","2","0","2","4"," ","1","0",":","0","0",":","0","0"," ","+","0","0","0","0">>

DateBad == <<"y","e","s","t","e","r","d","a","y">>

\* parsedate_to_datetime(date).strftime("%d-%b-%Y"): raises on a date it cannot parse
ParseDate(date) ==
  IF date = DateGood THEN Ok(<<"0","1","-","J","a","n","-","2","0","2","4">>) ELSE Raised

\* the sent requests the Sent Mail search may return (To and Date headers)
SentHeaders ==
  { [To |-> Hdr(<<"A","c","m","e"," ","<","a","@","b",".","i","o",">">>), Date |-> Hdr(DateGood)],
    [To |-> Hdr(<<"c","@","d",".","i","o">>), Date |-> Hdr(DateBad)],
    [To |-> Hdr(<<"a","c","m","e","@","x",".","c","o","m">>), Date |-> Hdr(DateGood)],
    [To |-> Hdr(<<"M","E","@","X",".","C","O","M">>), Date |-> Hdr(DateGood)],
    [To |-> NoHeader, Date |-> Hdr(DateGood)],
    [To |-> HdrEnc(<<"a", BadByte>>, "utf-8"), Date |-> Hdr(DateGood)] }

NoHeaders == [To |-> NoHeader, Date |-> NoHeader]

\* what imap.fetch(mid, '(RFC822.HEADER X-GM-THRID)') gives: headers with a
\* thread id, a response with no X-GM-THRID in it, or an error raised
SentOutcomes ==
  {[res |-> "OK", thrid |-> t, hdrs |-> h] : t \in ThreadIds, h \in SentHeaders}
    \cup {[res |-> "NOTHRID", thrid |-> "", hdrs |-> NoHeaders],
          [res |-> "RAISE", thrid |-> "", hdrs |-> NoHeaders]}


(***************************************************************************)
(* State.                                                                  *)
(***************************************************************************)
VARIABLES
  pc,                 \* where scan_requests stands
  debug_mode,         \* self.debug_mode
  mailbox,            \* the messages the account holds (All Mail)
  n,                  \* len(sent_ids)
  i,                  \* sent messages the loop of scan_requests has gone through
  processed_threads,  \* processed_threads
  original_msg,       \* the request analyze_thread is working on
  replies,            \* replies, local to analyze_thread
  categories,         \* self.categories
  found_ids,          \* history: the thread ids the loop has read, repeats included
  filed,              \* history: <<thread id, bucket>> of every entry filed
  look,               \* history: the mailbox queries of the current request
  result,             \* history: the outcome of the latest analyze_thread
  call                \* a helper method called on its own: argument and return

vars ==
  <<pc, debug_mode, mailbox, n, i, processed_threads, original_msg, replies,
    categories, found_ids, filed, look, result, call>>

Buckets ==
  {"failed", "web_required", "success", "no_response", "pending",
   "not_found", "uncategorized"}

NoRequest ==
  [id |-> UnknownId, email_clean |-> <<>>, to |-> <<>>, date |-> <<>>, thread_id |-> ""]

\* queries: the searches sent for the request; thread, fallback: what they
\* returned; primary: the replies the thread gave; fallback_reply: the reply
\* the fallback added; fallback_failed: an exception was swallowed
NoLook ==
  [queries |-> <<>>, thread |-> <<>>, primary |-> <<>>, fallback |-> <<>>,
   fallback_reply |-> <<>>, fallback_failed |-> FALSE]

NoResult ==
  [valid |-> FALSE, bucket |-> "", evaluated |-> <<>>, reply |-> NoMessage,
   thread_id |-> ""]

\* no helper is being called on its own
NoCall == [fn |-> ""]

\* __init__ and connect(): empty buckets, nothing scanned yet
Init ==
  /\ pc = "search"
  /\ debug_mode \in BOOLEAN
  /\ mailbox = FewMessages
  /\ n = 0
  /\ i = 0
  /\ processed_threads = {}
  /\ original_msg = NoRequest
  /\ replies = <<>>
  /\ categories = [b \in Buckets |-> <<>>]
  /\ found_ids = <<>>
  /\ filed = <<>>
  /\ look = NoLook
  /\ result = NoResult
  /\ call = NoCall

(***************************************************************************)
(* scan_requests: the Sent Mail search.                                    *)
(***************************************************************************)
\* what the Sent Mail search gives: an error raised, a status other than OK,
\* or OK with the number of ids found
SentSearchOutcomes ==
  {[status |-> "RAISE", count |-> 0], [status |-> "NO", count |-> 0]}
    \cup {[status |-> "OK", count |-> k] : k \in 0..MaxSent}

\* select and search of Sent Mail, up to the loop
Search ==
  /\ pc = "search"
  /\ \E out \in SentSearchOutcomes :
       /\ pc' = IF out.status = "RAISE" THEN "aborted"
                ELSE IF out.status # "OK" \/ out.count = 0 THEN "returned"
                ELSE "fetch"
       /\ n' = out.count
  /\ UNCHANGED <<call, debug_mode, mailbox, i, processed_threads, original_msg, replies,
                 categories, found_ids, filed, look, result>>

\* original_msg as scan_requests builds it from the decoded headers
MakeRequest(to_addr, date_sent, thread_id) ==
  [id |-> broker_id_of(extract_email_address(to_addr)),
   email_clean |-> extract_email_address(to_addr),
   to |-> to_addr,
   date |-> date_sent,
   thread_id |-> thread_id]

\* a deduplication that never recognises a thread id
AlreadyProcessed_Never(thread_id, processed) == FALSE

\* `thread_id in processed_threads`
AlreadyProcessed(thread_id, processed) == thread_id \in processed

\* one pass of the loop over sent_ids up to the call of analyze_thread: the
\* header fetch, the thread id and its deduplication, the request record
FetchSent ==
  /\ pc = "fetch"
  /\ i < n
  /\ \E out \in SentOutcomes :
       LET to_addr == decode_str(out.hdrs.To)
           date_sent == decode_str(out.hdrs.Date)
       IN  IF out.res = "RAISE"
             THEN /\ pc' = "aborted"
                  /\ UNCHANGED <<i, processed_threads, original_msg, replies,
                                 found_ids, look, result>>
           ELSE IF out.res = "NOTHRID"
             THEN /\ pc' = "fetch"
                  /\ i' = i + 1
                  /\ original_msg' = NoRequest
                  /\ replies' = <<>>
                  /\ look' = NoLook
                  /\ result' = NoResult
                  /\ UNCHANGED <<processed_threads, found_ids>>
           ELSE IF AlreadyProcessed(out.thrid, processed_threads)
             THEN /\ pc' = "fetch"
                  /\ i' = i + 1
                  /\ found_ids' = Append(found_ids, out.thrid)
                  /\ original_msg' = NoRequest
                  /\ replies' = <<>>
                  /\ look' = NoLook
                  /\ result' = NoResult
                  /\ UNCHANGED processed_threads
           ELSE IF to_addr.raised \/ date_sent.raised
             THEN /\ pc' = "aborted"
                  /\ processed_threads' = processed_threads \cup {out.thrid}
                  /\ found_ids' = Append(found_ids, out.thrid)
                  /\ UNCHANGED <<i, original_msg, replies, look, result>>
           ELSE /\ pc' = "primary"
                /\ processed_threads' = processed_threads \cup {out.thrid}
                /\ found_ids' = Append(found_ids, out.thrid)
                /\ original_msg' = MakeRequest(to_addr.val, date_sent.val, out.thrid)
                /\ replies' = <<>>
                /\ look' = NoLook
                /\ result' = NoResult
                /\ UNCHANGED i
  /\ UNCHANGED <<call, debug_mode, mailbox, n, categories, filed>>

(***************************************************************************)
(* analyze_thread.                                                         *)
(***************************************************************************)
\* `self.email_address in sender`
IsOwnSender(sender) == Contains(sender, email_address)

\* the loop over the messages of the thread: the replies kept, or the error
\* that a fetch or a header decode lets through
RECURSIVE ThreadReplies(_, _, _)
ThreadReplies(found, k, acc) ==
  IF k > Len(found) THEN Ok(acc)
  ELSE IF found[k].res = "RAISE" THEN Raised
  ELSE IF found[k].res # "OK" THEN ThreadReplies(found, k + 1, acc)
  ELSE LET sender == decode_str(found[k].msg.From)
       IN  IF sender.raised THEN Raised
           ELSE IF IsOwnSender(sender.val) THEN ThreadReplies(found, k + 1, acc)
           ELSE ThreadReplies(found, k + 1, Append(acc, found[k].msg))

\* a fallback search that is made whatever the thread gave
NeedsFallback_Always(rs) == TRUE

\* `if not replies:` before the fallback search
NeedsFallback(rs) == rs = <<>>

\* the primary lookup: search of All Mail by X-GM-THRID and the fetch loop
PrimaryLookup ==
  /\ pc = "primary"
  /\ \E out \in SearchOutcomes(mailbox) :
       LET kept == IF out.status = "OK" THEN ThreadReplies(out.found, 1, <<>>)
                   ELSE Ok(<<>>)
       IN  /\ look' = [look EXCEPT !.queries = Append(@, "X-GM-THRID"),
                                   !.thread = out.found,
                                   !.primary = kept.val]
           /\ IF out.status = "RAISE" \/ kept.raised
                THEN /\ pc' = "aborted"
                     /\ UNCHANGED replies
                ELSE /\ replies' = kept.val
                     /\ pc' = IF NeedsFallback(kept.val) THEN "fallback" ELSE "classify"
  /\ UNCHANGED <<call, debug_mode, mailbox, n, i, processed_threads, original_msg, categories,
                 found_ids, filed, result>>

\* the try block once the fallback search has answered: the message to add to
\* replies, or the exception raised inside the block
FallbackTry(out) ==
  IF out.status = "RAISE" THEN Raised
  ELSE IF out.status # "OK" \/ out.found = <<>> THEN Ok(<<>>)
  ELSE LET latest == out.found[Len(out.found)]
           sender == decode_str(latest.msg.From)
       IN  IF latest.res = "RAISE" THEN Raised
           ELSE IF latest.res # "OK" THEN Ok(<<>>)
           ELSE IF sender.raised THEN Raised
           ELSE IF IsOwnSender(sender.val) THEN Ok(<<>>)
           ELSE Ok(<<latest.msg>>)

\* a try block without its except clause: the exception goes on to the caller
ExceptNothing(r) ==
  [raised |-> r.raised, failed |-> r.raised, add |-> IF r.raised THEN <<>> ELSE r.val]

\* `except Exception: pass`: whatever the try block raised is swallowed
ExceptException(r) ==
  IF r.raised THEN [raised |-> FALSE, failed |-> TRUE, add |-> <<>>]
  ELSE [raised |-> FALSE, failed |-> FALSE, add |-> r.val]

\* the fallback search, entered with replies empty
FallbackLookup ==
  /\ pc = "fallback"
  /\ IF original_msg.email_clean = <<>>
       THEN /\ pc' = "classify"
            /\ UNCHANGED <<replies, look>>
     ELSE IF ParseDate(original_msg.date).raised
       THEN LET f == ExceptException(Raised)
            IN  /\ replies' = replies \o f.add
                /\ look' = [look EXCEPT !.fallback_failed = f.failed]
                /\ pc' = IF f.raised THEN "aborted" ELSE "classify"
     ELSE \E out \in SearchOutcomes(FromMatches(mailbox, original_msg.email_clean)) :
            LET f == ExceptException(FallbackTry(out))
            IN  /\ replies' = replies \o f.add
                /\ look' = [look EXCEPT !.queries = Append(@, "FROM-SINCE"),
                                        !.fallback = out.found,
                                        !.fallback_reply = f.add,
                                        !.fallback_failed = f.failed]
                /\ pc' = IF f.raised THEN "aborted" ELSE "classify"
  /\ UNCHANGED <<call, debug_mode, mailbox, n, i, processed_threads, original_msg, categories,
                 found_ids, filed, result>>


\* the keyword checks with the success check before the web-form check
Categorize_SuccessFirst(sender, body) ==
  IF AnyIn(keywords_bounce, sender) \/ Contains(sender, <<"p","o","s","t","m","a","s","t","e","r">>)
    THEN [bucket |-> "failed", evaluated |-> <<"bounce">>]
  ELSE IF AnyIn(keywords_success, body)
    THEN [bucket |-> "success", evaluated |-> <<"bounce", "success">>]
  ELSE IF AnyIn(keywords_web_only, body)
    THEN [bucket |-> "web_required", evaluated |-> <<"bounce", "success", "web_only">>]
  ELSE IF AnyIn(keywords_pending, body)
    THEN [bucket |-> "pending", evaluated |-> <<"bounce", "success", "web_only", "pending">>]
  ELSE IF AnyIn(keywords_not_found, body)
    THEN [bucket |-> "not_found", evaluated |-> <<"bounce", "success", "web_only", "pending", "not_found">>]
  ELSE [bucket |-> "uncategorized", evaluated |-> <<"bounce", "success", "web_only", "pending", "not_found">>]

\* the keyword checks with the not-found check before the pending check
Categorize_NotFoundFirst(sender, body) ==
  IF AnyIn(keywords_bounce, sender) \/ Contains(sender, <<"p","o","s","t","m","a","s","t","e","r">>)
    THEN [bucket |-> "failed", evaluated |-> <<"bounce">>]
  ELSE IF AnyIn(keywords_web_only, body)
    THEN [bucket |-> "web_required", evaluated |-> <<"bounce", "web_only">>]
  ELSE IF AnyIn(keywords_success, body)
    THEN [bucket |-> "success", evaluated |-> <<"bounce", "web_only", "success">>]
  ELSE IF AnyIn(keywords_not_found, body)
    THEN [bucket |-> "not_found", evaluated |-> <<"bounce", "web_only", "success", "not_found">>]
  ELSE IF AnyIn(keywords_pending, body)
    THEN [bucket |-> "pending", evaluated |-> <<"bounce", "web_only", "success", "not_found", "pending">>]
  ELSE [bucket |-> "uncategorized", evaluated |-> <<"bounce", "web_only", "success", "not_found", "pending">>]

\* the chain of keyword checks of analyze_thread: the bucket of the first rule
\* that matches and the keyword groups that were evaluated on the way
Categorize(sender, body) ==
  IF AnyIn(keywords_bounce, sender) \/ Contains(sender, <<"p","o","s","t","m","a","s","t","e","r">>)
    THEN [bucket |-> "failed", evaluated |-> <<"bounce">>]
  ELSE IF AnyIn(keywords_web_only, body)
    THEN [bucket |-> "web_required", evaluated |-> <<"bounce", "web_only">>]
  ELSE IF AnyIn(keywords_success, body)
    THEN [bucket |-> "success", evaluated |-> <<"bounce", "web_only", "success">>]
  ELSE IF AnyIn(keywords_pending, body)
    THEN [bucket |-> "pending",
          evaluated |-> <<"bounce", "web_only", "success", "pending">>]
  ELSE IF AnyIn(keywords_not_found, body)
    THEN [bucket |-> "not_found",
          evaluated |-> <<"bounce", "web_only", "success", "pending", "not_found">>]
  ELSE [bucket |-> "uncategorized",
        evaluated |-> <<"bounce", "web_only", "success", "pending", "not_found">>]

\* the sender taken as it is written, without lower()
ReplySender_NoLower(msg) == decode_str(msg.From).val

\* sender and body as the keyword checks see them
ReplySender(msg) == Lower(decode_str(msg.From).val)

ReplyBody(msg) == Lower(get_email_body(msg))

\* the info dict of a classified reply
Info(req, msg, bucket, debug) ==
  [id |-> broker_id_of(extract_email_address(req.to)),
   broker |-> req.to,
   sent_date |-> req.date,
   reply_subject |-> Lower(decode_str(msg.Subject).val),
   reply_from |-> ReplySender(msg),
   url |-> IF bucket = "web_required" THEN extract_url(ReplyBody(msg)) ELSE NoUrl,
   has_preview |-> (bucket = "uncategorized" /\ debug),
   body_preview |-> IF bucket = "uncategorized" /\ debug
                      THEN get_email_body(msg) ELSE <<>>]

\* a final check that takes a single reply for none
HasReply_MoreThanOne(rs) == Len(rs) > 1

\* the final check of analyze_thread: NO_RESPONSE when there is no reply
HasReply(rs) == rs # <<>>

\* the reply analyze_thread classifies
LatestReply(rs) == rs[Len(rs)]

\* the rest of analyze_thread, from the final check on: the request is filed
\* under NO_RESPONSE or under the category of its latest reply, and the loop of
\* scan_requests moves on; an undecodable header of the reply is let through
Classify ==
  /\ pc = "classify"
  /\ IF ~HasReply(replies)
       THEN /\ categories' = [categories EXCEPT
                                !["no_response"] = Append(@, original_msg)]
            /\ filed' = Append(filed, <<original_msg.thread_id, "no_response">>)
            /\ result' = [valid |-> TRUE, bucket |-> "no_response",
                          evaluated |-> <<>>, reply |-> NoMessage,
                          thread_id |-> original_msg.thread_id]
            /\ i' = i + 1
            /\ pc' = "fetch"
     ELSE LET latest_reply == LatestReply(replies)
              c == Categorize(ReplySender(latest_reply), ReplyBody(latest_reply))
          IN  IF decode_str(latest_reply.From).raised
                   \/ decode_str(latest_reply.Subject).raised
                THEN /\ pc' = "aborted"
                     /\ UNCHANGED <<categories, filed, result, i>>
              ELSE /\ categories' =
                        [categories EXCEPT
                           ![c.bucket] = Append(@, Info(original_msg, latest_reply,
                                                        c.bucket, debug_mode))]
                   /\ filed' = Append(filed, <<original_msg.thread_id, c.bucket>>)
                   /\ result' = [valid |-> TRUE, bucket |-> c.bucket,
                                 evaluated |-> c.evaluated, reply |-> latest_reply,
                                 thread_id |-> original_msg.thread_id]
                   /\ i' = i + 1
                   /\ pc' = "fetch"
  /\ UNCHANGED <<call, debug_mode, mailbox, n, processed_threads, original_msg, replies,
                 found_ids, look>>

(***************************************************************************)
(* print_report.                                                           *)
(***************************************************************************)
\* the rank given to an id that is neither an int nor a string of digits
UnknownRank == 999999

DigitChars == <<"0","1","2","3","4","5","6","7","8","9">>

\* str.isdigit()
IsDigit(s) == s # <<>> /\ \A k \in 1..Len(s) : \E d \in 1..10 : DigitChars[d] = s[k]

RECURSIVE StrToInt(_, _, _)
StrToInt(s, k, acc) ==
  IF k > Len(s) THEN acc
  ELSE StrToInt(s, k + 1, 10 * acc + (CHOOSE d \in 1..10 : DigitChars[d] = s[k]) - 1)

\* key=lambda x: int(x['id']) if ... else 999999
SortKey(item) ==
  IF item.id.int THEN item.id.n
  ELSE IF IsDigit(item.id.s) THEN StrToInt(item.id.s, 1, 0)
  ELSE UnknownRank

\* an insertion that puts x before the items of equal key
InsertPos_BeforeEqual(sorted, x) ==
  Cardinality({k \in 1..Len(sorted) : SortKey(sorted[k]) < SortKey(x)})

\* where a stable sort puts x among the already sorted items: after every
\* item whose key is not greater
InsertPos(sorted, x) ==
  Cardinality({k \in 1..Len(sorted) : SortKey(sorted[k]) <= SortKey(x)})

RECURSIVE SortFrom(_, _, _)
SortFrom(items, k, sorted) ==
  IF k > Len(items) THEN sorted
  ELSE LET p == InsertPos(sorted, items[k])
       IN  SortFrom(items, k + 1,
                    SubSeq(sorted, 1, p) \o <<items[k]>> \o SubSeq(sorted, p + 1, Len(sorted)))

\* items.sort(key=...): Python's sort is stable
SortItems(items) == SortFrom(items, 1, <<>>)

\* the end of the loop of scan_requests: print_report sorts every bucket in
\* place and prints it, then logout
PrintReport ==
  /\ pc = "fetch"
  /\ i = n
  /\ categories' = [b \in Buckets |-> SortItems(categories[b])]
  /\ pc' = "done"
  /\ UNCHANGED <<call, debug_mode, mailbox, n, i, processed_threads, original_msg, replies,
                 found_ids, filed, look, result>>

Next ==
  \/ Search
  \/ FetchSent
  \/ PrimaryLookup
  \/ FallbackLookup
  \/ Classify
  \/ PrintReport

Spec == Init /\ [][Next]_vars


(***************************************************************************)
(* One call of analyze_thread against a mailbox with many kinds of         *)
(* messages: the state scan_requests is in when it calls analyze_thread    *)
(* for the first request of a scan.                                        *)
(***************************************************************************)
\* headers of a sent request that decode_str decodes
DecodableHeaders ==
  {h \in SentHeaders : ~decode_str(h.To).raised /\ ~decode_str(h.Date).raised}

InitThread ==
  /\ pc = "primary"
  /\ debug_mode = FALSE
  /\ mailbox = Messages
  /\ n = 1
  /\ i = 0
  /\ processed_threads = {"17"}
  /\ \E h \in DecodableHeaders :
       original_msg = MakeRequest(decode_str(h.To).val, decode_str(h.Date).val, "17")
  /\ replies = <<>>
  /\ categories = [b \in Buckets |-> <<>>]
  /\ found_ids = <<"17">>
  /\ filed = <<>>
  /\ look = NoLook
  /\ result = NoResult
  /\ call = NoCall

NextThread ==
  \/ PrimaryLookup
  \/ FallbackLookup
  \/ Classify

SpecThread == InitThread /\ [][NextThread]_vars

(***************************************************************************)
(* The keyword checks over every combination of sender and body phrases:   *)
(* the state analyze_thread is in when the thread search has returned one  *)
(* reply.                                                                  *)
(***************************************************************************)
Senders ==
  { FromBroker, FromDaemon, FromPostmaster, FromAlias, FromUserCaps,
    Hdr(PhraseBounce), NoHeader }

Bodies ==
  {BodyWith(gs) : gs \in SUBSET BodyGroups}
    \cup {PhraseBounce, <<>>, PhraseWebCaps, PhraseUrlOnly, PhraseUrlOnly \o PhraseSuccess}

ClassifyMessages ==
  {Single(f, SubjectRe, TextPart(b)) : f \in Senders, b \in Bodies}

InitClassify ==
  /\ pc = "classify"
  /\ debug_mode \in BOOLEAN
  /\ mailbox = ClassifyMessages
  /\ n = 1
  /\ i = 0
  /\ processed_threads = {"17"}
  /\ original_msg = MakeRequest(<<"A","c","m","e"," ","<","a","@","b",".","i","o",">">>, DateGood, "17")
  /\ \E m \in ClassifyMessages :
       /\ replies = <<m>>
       /\ look = [NoLook EXCEPT !.queries = <<"X-GM-THRID">>,
                                !.thread = <<[res |-> "OK", msg |-> m]>>,
                                !.primary = <<m>>]
  /\ categories = [b \in Buckets |-> <<>>]
  /\ found_ids = <<"17">>
  /\ filed = <<>>
  /\ result = NoResult
  /\ call = NoCall

NextClassify == Classify

SpecClassify == InitClassify /\ [][NextClassify]_vars

(***************************************************************************)
(* print_report over buckets of every arrival order: the state             *)
(* scan_requests is in when its loop has ended and every request has gone  *)
(* to the same bucket.                                                     *)
(***************************************************************************)
\* most entries of a bucket
MaxBucket == 5

\* To headers of brokers 1, 2 and 5 and of an address not in the directory
ReportTo == { <<"a","@","b",".","i","o">>, <<"c","@","d",".","i","o">>, <<"i","@","j",".","i","o">>, <<"z","@","z",".","i","o">> }

\* a reply that the keyword checks put in bucket b
ReplyOf(b) ==
  CASE b = "failed"        -> Single(FromDaemon, SubjectRe, TextPart(BodyWith({})))
    [] b = "web_required"  -> Single(FromBroker, SubjectRe, TextPart(BodyWith({"web_only"})))
    [] b = "success"       -> Single(FromBroker, SubjectRe, TextPart(BodyWith({"success"})))
    [] b = "pending"       -> Single(FromBroker, SubjectRe, TextPart(BodyWith({"pending"})))
    [] b = "not_found"     -> Single(FromBroker, SubjectRe, TextPart(BodyWith({"not_found"})))
    [] OTHER               -> Single(FromBroker, SubjectRe, TextPart(BodyWith({})))

\* the k-th request of the scan, sent to address to: its thread id and its
\* Date header tell the requests apart
RequestAt(k, to) == MakeRequest(to, <<ToString(k)>> \o <<" ","J","a","n"," ","2","0","2","4">>, ToString(100 + k))

EntryAt(b, k, to) ==
  IF b = "no_response" THEN RequestAt(k, to)
  ELSE Info(RequestAt(k, to), ReplyOf(b), b, FALSE)

\* every entry a bucket may hold, by bucket, arrival position and address
ReportEntries ==
  [b \in Buckets |-> [k \in 1..MaxBucket |-> [to \in ReportTo |-> EntryAt(b, k, to)]]]

InitReport ==
  /\ pc = "fetch"
  /\ debug_mode = FALSE
  /\ mailbox = {ReplyOf(b) : b \in Buckets \ {"no_response"}}
  /\ \E b \in Buckets : \E tos \in SeqUpTo(ReportTo, MaxBucket) :
       /\ n = Len(tos)
       /\ i = Len(tos)
       /\ n > 0
       /\ processed_threads = {ToString(100 + k) : k \in 1..Len(tos)}
       /\ categories = [c \in Buckets |->
                          IF c = b THEN [k \in 1..Len(tos) |-> ReportEntries[b][k][tos[k]]]
                          ELSE <<>>]
       /\ found_ids = [k \in 1..Len(tos) |-> ToString(100 + k)]
       /\ filed = [k \in 1..Len(tos) |-> <<ToString(100 + k), b>>]
  /\ original_msg = NoRequest
  /\ replies = <<>>
  /\ look = NoLook
  /\ result = NoResult
  /\ call = NoCall

NextReport == PrintReport

SpecReport == InitReport /\ [][NextReport]_vars


(***************************************************************************)
(* The helper methods called on their own, each on every input of a       *)
(* bounded set.                                                            *)
(***************************************************************************)
\* the other variables while a helper is called on its own
Idle ==
  /\ debug_mode = FALSE
  /\ mailbox = {}
  /\ n = 0
  /\ i = 0
  /\ processed_threads = {}
  /\ original_msg = NoRequest
  /\ replies = <<>>
  /\ categories = [b \in Buckets |-> <<>>]
  /\ found_ids = <<>>
  /\ filed = <<>>
  /\ look = NoLook
  /\ result = NoResult

\* the pieces of ps joined
RECURSIVE Concat(_, _)
Concat(ps, k) == IF k > Len(ps) THEN <<>> ELSE ps[k] \o Concat(ps, k + 1)

(***************************************************************************)
(* extract_url(text).                                                      *)
(***************************************************************************)
\* most pieces of a text given to extract_url
MaxPieces == 3

UrlPieces ==
  { <<"v","i","s","i","t"," ">>, <<"h","t","t","p",":","/","/">>, <<"h","t","t","p","s",":","/","/">>, <<"H","T","T","P","S",":","/","/">>, <<"b",".","i","o","/","o","?","i","d","=","5">>,
    <<".">>, <<",">>, <<":">>, <<")">>, <<" ">>, <<"<">>, <<"\"">>, <<"\n">> }

UrlExample == <<"v","i","s","i","t"," ","h","t","t","p","s",":","/","/","b","r","o","k","e","r",".","e","x","a","m","p","l","e",".","c","o","m","/","o","p","t","o","u","t","?","i","d","=","5",","," ","t","h","a","n","k","s">>

UrlTexts == {Concat(ps, 1) : ps \in SeqUpTo(UrlPieces, MaxPieces)} \cup {UrlExample}

InitUrl ==
  /\ pc = "call"
  /\ call \in {[fn |-> "extract_url", arg |-> t, returned |-> FALSE, ret |-> NoUrl] :
                 t \in UrlTexts}
  /\ Idle

CallExtractUrl ==
  /\ pc = "call"
  /\ call.fn = "extract_url"
  /\ call' = [call EXCEPT !.returned = TRUE, !.ret = extract_url(call.arg)]
  /\ pc' = "called"
  /\ UNCHANGED <<debug_mode, mailbox, n, i, processed_threads, original_msg, replies,
                 categories, found_ids, filed, look, result>>

NextUrl == CallExtractUrl

SpecUrl == InitUrl /\ [][NextUrl]_vars

(***************************************************************************)
(* get_email_body(msg), and the classification of the message as the      *)
(* only reply of a thread.                                                 *)
(***************************************************************************)
\* most parts of a multipart message given to get_email_body
MaxParts == 2

HtmlExample == <<"<","p",">","Y","o","u","r"," ","r","e","q","u","e","s","t"," ","h","a","s"," ","b","e","e","n"," ","<","b",">","c","o","m","p","l","e","t","e","d","<","/","b",">",".","<","/","p",">">>

\* a plain-text part sent as an attachment
AttachedPart(s) == [ctype |-> "text/plain", attachment |-> TRUE, payload |-> s]

BodyParts ==
  { TextPart(<<"N","o"," ","r","e","c","o","r","d",".","\n">>), TextPart(<<"I","n"," "," ","p","r","o","c","e","s","s","."," ">>), TextPart(<<>>),
    TextPart(<<"A", BadByte>>), AttachedPart(<<"U","n","d","e","l","i","v","e","r","a","b","l","e","."," ">>),
    HtmlPart(HtmlExample), HtmlPart(<<"<","a"," ","h","r","e","f","=","\"","h","t","t","p","s",":","/","/","b",".","i","o","/","o","\"",">","C","l","i","c","k","\t","h","e","r","e","<","/","a",">","<","b","r",">">>),
    HtmlPart(<<"<", "p", ">", BadByte>>) }

BodyMessages ==
  {Single(FromBroker, SubjectRe, p) : p \in BodyParts}
    \cup {Multi(FromBroker, SubjectRe, ps) : ps \in SeqUpTo(BodyParts, MaxParts) \ {<<>>}}

InitBody ==
  /\ pc = "call"
  /\ debug_mode = FALSE
  /\ mailbox = {}
  /\ n = 1
  /\ i = 0
  /\ processed_threads = {"17"}
  /\ original_msg = MakeRequest(<<"A","c","m","e"," ","<","a","@","b",".","i","o",">">>, DateGood, "17")
  /\ \E m \in BodyMessages :
       /\ call = [fn |-> "get_email_body", arg |-> m, returned |-> FALSE, ret |-> <<>>]
       /\ replies = <<m>>
       /\ look = [NoLook EXCEPT !.queries = <<"X-GM-THRID">>,
                                !.thread = <<[res |-> "OK", msg |-> m]>>,
                                !.primary = <<m>>]
  /\ categories = [b \in Buckets |-> <<>>]
  /\ found_ids = <<"17">>
  /\ filed = <<>>
  /\ result = NoResult

CallGetEmailBody ==
  /\ pc = "call"
  /\ call.fn = "get_email_body"
  /\ call' = [call EXCEPT !.returned = TRUE, !.ret = get_email_body(call.arg)]
  /\ pc' = "classify"
  /\ UNCHANGED <<debug_mode, mailbox, n, i, processed_threads, original_msg, replies,
                 categories, found_ids, filed, look, result>>

NextBody == CallGetEmailBody \/ Classify

SpecBody == InitBody /\ [][NextBody]_vars

(***************************************************************************)
(* decode_str(text).                                                       *)
(***************************************************************************)
\* most (content, encoding) parts of a header given to decode_str
MaxHeaderParts == 2

HeaderContents == { <<"a","b">>, <<"c", BadByte>>, <<" ","d">> }

HeaderCharsets == {"", "utf-8", "iso-8859-1", "x-unknown"}

HeaderParts == {[content |-> c, charset |-> cs] : c \in HeaderContents, cs \in HeaderCharsets}

Headers ==
  {NoHeader} \cup {[present |-> TRUE, parts |-> ps] : ps \in SeqUpTo(HeaderParts, MaxHeaderParts)}

InitDecode ==
  /\ pc = "call"
  /\ call \in {[fn |-> "decode_str", arg |-> h, returned |-> FALSE, ret |-> Ok(<<>>)] :
                 h \in Headers}
  /\ Idle

CallDecodeStr ==
  /\ pc = "call"
  /\ call.fn = "decode_str"
  /\ call' = [call EXCEPT !.returned = TRUE, !.ret = decode_str(call.arg)]
  /\ pc' = "called"
  /\ UNCHANGED <<debug_mode, mailbox, n, i, processed_threads, original_msg, replies,
                 categories, found_ids, filed, look, result>>

NextDecode == CallDecodeStr

SpecDecode == InitDecode /\ [][NextDecode]_vars


(***************************************************************************)
(* Properties.                                                             *)
(***************************************************************************)
TotalEntries ==
  Len(categories["failed"]) + Len(categories["web_required"])
    + Len(categories["success"]) + Len(categories["no_response"])
    + Len(categories["pending"]) + Len(categories["not_found"])
    + Len(categories["uncategorized"])

DistinctIds == {found_ids[k] : k \in DOMAIN found_ids}

\* C1: whenever scan_requests stands at the head of its loop, has returned or
\* has finished, every distinct thread id read so far has exactly one entry:
\* the entries of the seven buckets together are as many as the distinct thread
\* ids, each thread id was filed once, in one bucket, and every bucket holds
\* exactly the entries filed under it.
C1_OneEntryPerThread ==
  pc \in {"fetch", "done", "returned"} =>
    /\ TotalEntries = Cardinality(DistinctIds)
    /\ Len(filed) = TotalEntries
    /\ \A t \in DistinctIds : Cardinality({k \in DOMAIN filed : filed[k][1] = t}) = 1
    /\ \A b \in Buckets :
         Len(categories[b]) = Cardinality({k \in DOMAIN filed : filed[k][2] = b})
    /\ \A j, k \in DOMAIN categories["no_response"] :
         j # k => categories["no_response"][j].thread_id
                    # categories["no_response"][k].thread_id

\* a finished scan of three sent messages, two of them of the same thread
C1_Witness ==
  /\ pc = "done"
  /\ Len(found_ids) = 3
  /\ Cardinality(DistinctIds) = 2
  /\ TotalEntries = 2

\* C2: a request is filed under NO_RESPONSE exactly when neither the thread
\* lookup nor the fallback lookup gave a reply, and then no keyword check was
\* evaluated.
C2_NoResponseIffNoReply ==
  result.valid =>
    /\ (result.bucket = "no_response")
         <=> (look.primary = <<>> /\ look.fallback_reply = <<>>)
    /\ (result.bucket = "no_response" => result.evaluated = <<>>)
    /\ (result.bucket # "no_response" => result.evaluated # <<>>)

\* both lookups were made, neither gave a reply, NO_RESPONSE was filed
C2_Witness ==
  /\ result.valid
  /\ result.bucket = "no_response"
  /\ look.queries = <<"X-GM-THRID", "FROM-SINCE">>
  /\ look.thread # <<>>
  /\ look.fallback # <<>>
  /\ categories["no_response"] = <<original_msg>>

\* s contains p, letter case ignored
ContainsAnyCase(s, p) ==
  \E k \in 1..(Len(s) - Len(p) + 1) :
    \A j \in 1..Len(p) : LowerChar(s[k + j - 1]) = LowerChar(p[j])

\* the From header of the classified reply, as decoded
ResultFrom == decode_str(result.reply.From).val

\* the body of the classified reply, as extracted
ResultBody == get_email_body(result.reply)

BodyHas(kws) == \E k \in 1..Len(kws) : ContainsAnyCase(ResultBody, kws[k])

IsClassified == result.valid /\ result.bucket # "no_response"

\* C3: a reply whose sender contains "mailer-daemon" or "postmaster", in any
\* letter case, is FAILED whatever its body holds.
C3_BounceSenderIsFailed ==
  (IsClassified /\ (\/ ContainsAnyCase(ResultFrom, <<"m","a","i","l","e","r","-","d","a","e","m","o","n">>)
                    \/ ContainsAnyCase(ResultFrom, <<"p","o","s","t","m","a","s","t","e","r">>)))
    => result.bucket = "failed"

\* a reply of "PostMaster", not in lower case, whose body
\* holds a web-form phrase and a success phrase, filed under FAILED
C3_Witness ==
  /\ IsClassified
  /\ result.bucket = "failed"
  /\ ContainsAnyCase(ResultFrom, <<"p","o","s","t","m","a","s","t","e","r">>)
  /\ ~Contains(ResultFrom, <<"p","o","s","t","m","a","s","t","e","r">>)
  /\ BodyHas(keywords_web_only)
  /\ BodyHas(keywords_success)
  /\ BodyHas(keywords_pending)
  /\ BodyHas(keywords_not_found)

SenderBounces ==
  \/ \E k \in 1..Len(keywords_bounce) : ContainsAnyCase(ResultFrom, keywords_bounce[k])
  \/ ContainsAnyCase(ResultFrom, <<"p","o","s","t","m","a","s","t","e","r">>)

\* C4: with a sender that matches no bounce phrase, a body holding a web-form
\* phrase and a success phrase is WEB_REQUIRED.
C4_WebFormBeatsSuccess ==
  (IsClassified /\ ~SenderBounces /\ BodyHas(keywords_web_only) /\ BodyHas(keywords_success))
    => result.bucket = "web_required"

C4_Witness ==
  /\ IsClassified
  /\ ~SenderBounces
  /\ BodyHas(keywords_web_only)
  /\ BodyHas(keywords_success)
  /\ result.bucket = "web_required"
  /\ categories["success"] = <<>>
  /\ Len(categories["web_required"]) = 1

\* C5: the category is that of the first rule that matches, in the order
\* FAILED (sender), WEB_REQUIRED, SUCCESS, PENDING, NOT_FOUND (body), and it is
\* UNCATEGORIZED exactly when no rule matches.
C5_FirstMatchWins ==
  IsClassified =>
    LET f == SenderBounces
        w == BodyHas(keywords_web_only)
        s == BodyHas(keywords_success)
        p == BodyHas(keywords_pending)
        q == BodyHas(keywords_not_found)
    IN  /\ (result.bucket = "failed") <=> f
        /\ (result.bucket = "web_required") <=> (~f /\ w)
        /\ (result.bucket = "success") <=> (~f /\ ~w /\ s)
        /\ (result.bucket = "pending") <=> (~f /\ ~w /\ ~s /\ p)
        /\ (result.bucket = "not_found") <=> (~f /\ ~w /\ ~s /\ ~p /\ q)
        /\ (result.bucket = "uncategorized") <=> ~(f \/ w \/ s \/ p \/ q)

\* a body with a pending phrase and a not-found phrase, filed under PENDING
C5_Witness ==
  /\ IsClassified
  /\ result.bucket = "pending"
  /\ BodyHas(keywords_not_found)
  /\ ~SenderBounces

\* C6: the fallback search is sent only when the thread lookup has left no
\* reply; when it has left one, the classified reply is a message of the thread.
C6_FallbackOnlyWhenPrimaryEmpty ==
  /\ pc = "fallback" => replies = <<>>
  /\ look.primary # <<>> =>
       /\ look.queries = <<"X-GM-THRID">>
       /\ look.fallback = <<>>
       /\ (result.valid =>
             /\ result.bucket # "no_response"
             /\ result.reply = look.primary[Len(look.primary)]
             /\ \E k \in DOMAIN look.thread :
                  look.thread[k] = [res |-> "OK", msg |-> result.reply])

\* a thread of two messages, one of them dropped as the user's own, whose
\* other message was classified with no fallback search
C6_Witness ==
  /\ result.valid
  /\ Len(look.thread) = 2
  /\ look.thread[2].res = "OK"
  /\ IsOwnSender(decode_str(look.thread[2].msg.From).val)
  /\ Len(look.primary) = 1
  /\ look.queries = <<"X-GM-THRID">>
  /\ result.reply = look.thread[1].msg

\* the last message a fallback search returned
LastFallback == look.fallback[Len(look.fallback)]

\* the address of a From header as parseaddr gives it
AddressOf(msg) == extract_email_address(decode_str(msg.From).val)

\* C7: when the thread gave no reply and the fallback search returned
\* messages, the request is classified from the last of them if its sender
\* is not the user's own address, and filed under NO_RESPONSE otherwise.
C7_LastFallbackDecides ==
  (/\ result.valid
   /\ look.primary = <<>>
   /\ look.fallback # <<>>
   /\ ~look.fallback_failed
   /\ LastFallback.res = "OK")
    => IF AddressOf(LastFallback.msg) # Lower(email_address)
         THEN result.bucket # "no_response" /\ result.reply = LastFallback.msg
         ELSE result.bucket = "no_response"

\* C8: a failure inside the fallback lookup stays inside analyze_thread: the
\* scan is not aborted by it, no reply is added, and the request is filed
\* under NO_RESPONSE.
C8_FallbackFailureIsContained ==
  look.fallback_failed =>
    /\ pc # "aborted"
    /\ replies = <<>>
    /\ look.fallback_reply = <<>>
    /\ (result.valid => result.bucket = "no_response")

\* the fallback search was sent, its answer made the try block raise, and the
\* request was filed under NO_RESPONSE
C8_Witness ==
  /\ result.valid
  /\ look.fallback_failed
  /\ look.queries = <<"X-GM-THRID", "FROM-SINCE">>
  /\ look.fallback # <<>>
  /\ result.bucket = "no_response"

\* C9: a failure while a request of the sent list is processed (its fetch, a
\* header decode, a thread lookup) never aborts scan_requests: the scan is left
\* by an exception only if the sent list itself could not be read.
C9_RequestFailureNeverAborts == pc = "aborted" => n = 0

\* the id of an entry is an int or a string of digits
IsNumeric(e) == e.id.int \/ IsDigit(e.id.s)

NumericValue(e) == IF e.id.int THEN e.id.n ELSE StrToInt(e.id.s, 1, 0)

\* x may stand before y in the report
MayPrecede(x, y) ==
  \/ ~IsNumeric(y)
  \/ IsNumeric(x) /\ IsNumeric(y) /\ NumericValue(x) <= NumericValue(y)

SameRank(x, y) ==
  \/ ~IsNumeric(x) /\ ~IsNumeric(y)
  \/ IsNumeric(x) /\ IsNumeric(y) /\ NumericValue(x) = NumericValue(y)

IsStableSortOf(out, in) ==
  /\ Len(out) = Len(in)
  /\ \A j, k \in 1..Len(out) : j < k => MayPrecede(out[j], out[k])
  /\ \A m \in 1..Len(in) :
       SelectSeq(out, LAMBDA x : SameRank(x, in[m]))
         = SelectSeq(in, LAMBDA x : SameRank(x, in[m]))

\* C10: print_report leaves every bucket as the stable sort of its arrival
\* order: numeric ids ascending, then the non-numeric ones, entries of equal
\* rank in arrival order.
C10_ReportIsStableSort ==
  [][(pc = "fetch" /\ pc' = "done")
       => \A b \in Buckets : IsStableSortOf(categories'[b], categories[b])]_vars

\* the report of a bucket that arrived with the ids 5, "???", 2, "???", 1
C10_Witness ==
  /\ pc = "done"
  /\ LET r == categories["no_response"]
     IN  /\ Len(r) = 5
         /\ [k \in 1..5 |-> r[k].id] = <<IntId(1), IntId(2), IntId(5), UnknownId, UnknownId>>
         /\ [k \in 1..5 |-> r[k].thread_id] = <<"105", "103", "101", "102", "104">>


(***************************************************************************)
(* extract_url.                                                            *)
(***************************************************************************)
\* text holds scheme at position p, followed by a character a URL may hold
SchemeAt(text, p, scheme) ==
  /\ p + Len(scheme) <= Len(text)
  /\ SubSeq(text, p, p + Len(scheme) - 1) = scheme
  /\ text[p + Len(scheme)] \notin {" ", "\t", "\n", "\r", "<", ">", "\""}

\* an http:// or https:// URL starts at position p of text
UrlAt(text, p) ==
  \/ SchemeAt(text, p, <<"h","t","t","p",":","/","/">>)
  \/ SchemeAt(text, p, <<"h","t","t","p","s",":","/","/">>)

\* url is the URL that starts at position p of text: it runs to the character
\* before the first whitespace, angle bracket or double quote, less its
\* trailing punctuation
IsUrlFrom(text, p, url) ==
  \E m, e \in p..Len(text) :
    /\ m <= e
    /\ \A k \in p..e : text[k] \notin {" ", "\t", "\n", "\r", "<", ">", "\""}
    /\ e = Len(text) \/ text[e + 1] \in {" ", "\t", "\n", "\r", "<", ">", "\""}
    /\ url = SubSeq(text, p, m)
    /\ text[m] \notin {".", ",", ";", ":", ")"}
    /\ \A k \in (m + 1)..e : text[k] \in {".", ",", ";", ":", ")"}

\* C11: extract_url returns None for a text with no http:// or https:// URL,
\* and otherwise the leftmost such URL, ended before the first whitespace,
\* angle bracket or double quote and with all its trailing '.', ',', ';', ':'
\* and ')' removed.
C11_ExtractUrlFirstUrl ==
  (call.fn = "extract_url" /\ call.returned) =>
    LET text == call.arg
        at == {p \in 1..Len(text) : UrlAt(text, p)}
    IN  IF at = {} THEN call.ret = NoUrl
        ELSE /\ call.ret # NoUrl
             /\ \E p \in at : /\ \A q \in at : p <= q
                              /\ IsUrlFrom(text, p, call.ret)

\* the example of the specification
C11_Witness ==
  /\ call.fn = "extract_url"
  /\ call.returned
  /\ call.arg = UrlExample
  /\ call.ret = <<"h","t","t","p","s",":","/","/","b","r","o","k","e","r",".","e","x","a","m","p","l","e",".","c","o","m","/","o","p","t","o","u","t","?","i","d","=","5">>

(***************************************************************************)
(* get_email_body.                                                         *)
(***************************************************************************)
IsHtml(part) == part.ctype = "text/html" /\ ~part.attachment

IsPlain(part) == part.ctype = "text/plain" /\ ~part.attachment

Decodable(part) == \A k \in 1..Len(part.payload) : part.payload[k] # BadByte

\* the only content of msg is one HTML part
OnlyHtml(msg) == Len(msg.parts) = 1 /\ IsHtml(msg.parts[1]) /\ Decodable(msg.parts[1])

\* s holds a tag: "<", then characters other than "<", then ">"
HasTag(s) ==
  \E j, k \in 1..Len(s) :
    /\ j + 1 < k
    /\ s[j] = "<"
    /\ s[k] = ">"
    /\ \A m \in (j + 1)..(k - 1) : s[m] # "<"

\* C12: the body get_email_body returns for a message whose only content is
\* HTML, single-part or multipart, holds no tag; the body of the example holds
\* "completed", with its tags replaced by spaces, and the reply is SUCCESS.
C12_HtmlOnlyBodyHasNoTag ==
  (call.fn = "get_email_body" /\ call.returned /\ OnlyHtml(call.arg)) =>
    /\ ~HasTag(call.ret)
    /\ call.arg.parts[1].payload = HtmlExample =>
         /\ call.ret = <<"Y","o","u","r"," ","r","e","q","u","e","s","t"," ","h","a","s"," ","b","e","e","n"," ","c","o","m","p","l","e","t","e","d"," ",".">>
         /\ result.valid => result.bucket = "success"

\* the text of the plain-text parts of msg that decode, in order
PlainParts(msg) == SelectSeq(msg.parts, LAMBDA p : IsPlain(p) /\ Decodable(p))

PlainText(msg) == Concat([k \in 1..Len(PlainParts(msg)) |-> PlainParts(msg)[k].payload], 1)

\* the words of s, as a set of <<first, last>> positions
WordsOf(s) ==
  {w \in (1..Len(s)) \X (1..Len(s)) :
     /\ w[1] <= w[2]
     /\ \A k \in w[1]..w[2] : s[k] \notin {" ", "\t", "\n", "\r"}
     /\ w[1] = 1 \/ s[w[1] - 1] \in {" ", "\t", "\n", "\r"}
     /\ w[2] = Len(s) \/ s[w[2] + 1] \in {" ", "\t", "\n", "\r"}}

\* a and b hold the same words in the same order
SameWords(a, b) ==
  /\ Cardinality(WordsOf(a)) = Cardinality(WordsOf(b))
  /\ \A w \in WordsOf(a) :
       \E v \in WordsOf(b) :
         /\ SubSeq(a, w[1], w[2]) = SubSeq(b, v[1], v[2])
         /\ Cardinality({x \in WordsOf(a) : x[1] < w[1]})
              = Cardinality({y \in WordsOf(b) : y[1] < v[1]})

\* C13: for a multipart message with a plain-text part that decodes, is no
\* attachment and holds text, the body is made of the plain-text parts alone, in order,
\* wherever its HTML parts stand.
C13_PlainTextOnly ==
  (/\ call.fn = "get_email_body"
   /\ call.returned
   /\ call.arg.multipart
   /\ PlainText(call.arg) # <<>>)
    => SameWords(call.ret, PlainText(call.arg))

(***************************************************************************)
(* The primary lookup of analyze_thread.                                   *)
(***************************************************************************)
\* the messages of the thread that were fetched, in mailbox order
FetchedThread ==
  LET got == SelectSeq(look.thread, LAMBDA f : f.res = "OK")
  IN  [k \in 1..Len(got) |-> got[k].msg]

\* msg was sent from the user's own address
SentByUser(msg) == AddressOf(msg) = Lower(email_address)

\* the messages of the thread that the user did not send
RepliesOfOthers == SelectSeq(FetchedThread, LAMBDA m : ~SentByUser(m))

\* the primary lookup has run to its end
PrimaryDone == look.queries # <<>> /\ pc # "aborted"

\* C14: the replies the primary lookup keeps are the messages of the thread
\* whose sender address is not the user's own address, whatever its letter
\* case and display name: no message of the user is kept or classified, and
\* no message of another sender is dropped.
C14_OwnAddressExcluded ==
  PrimaryDone =>
    /\ look.primary = RepliesOfOthers
    /\ (result.valid /\ result.bucket # "no_response") => ~SentByUser(result.reply)

\* C15: when the thread holds replies that the user did not send, the result
\* is that of the last of them in mailbox order: its category, and its subject
\* and sender in the entry filed.
C15_LastReplyDecides ==
  (result.valid /\ PrimaryDone /\ RepliesOfOthers # <<>>) =>
    LET last == RepliesOfOthers[Len(RepliesOfOthers)]
    IN  /\ result.reply = last
        /\ result.bucket = Categorize(ReplySender(last), ReplyBody(last)).bucket
        /\ LET entry == categories[result.bucket][Len(categories[result.bucket])]
           IN  /\ entry.reply_from = Lower(decode_str(last.From).val)
               /\ entry.reply_subject = Lower(decode_str(last.Subject).val)

(***************************************************************************)
(* decode_str.                                                             *)
(***************************************************************************)
\* the text of one part: decoded with its stated encoding where that encoding
\* is known and fits the bytes, as permissive UTF-8 otherwise
PartText(p) ==
  IF p.charset = "iso-8859-1"
    THEN [k \in 1..Len(p.content) |-> IF p.content[k] = BadByte THEN "U+00FF" ELSE p.content[k]]
  ELSE SelectSeq(p.content, LAMBDA c : c # BadByte)

\* C16: decode_str raises no error, whatever the header: it returns the texts
\* of the parts joined in order with no separator, a part whose encoding is
\* unknown or does not fit its bytes decoded as permissive UTF-8, and the
\* empty string for an absent header.
C16_DecodeStrNeverRaises ==
  (call.fn = "decode_str" /\ call.returned) =>
    /\ ~call.ret.raised
    /\ call.ret.val = Concat([k \in 1..Len(call.arg.parts) |-> PartText(call.arg.parts[k])], 1)

(***************************************************************************)
(* The URL and the body preview of a result.                               *)
(***************************************************************************)
\* the entry that the latest analyze_thread filed
ResultEntry == categories[result.bucket][Len(categories[result.bucket])]

\* the body of the classified reply holds an http:// or https:// URL
BodyHasUrl == \E p \in 1..Len(ResultBody) : UrlAt(Lower(ResultBody), p)

\* url is the first URL of text
IsFirstUrl(text, url) ==
  \E p \in 1..Len(text) :
    /\ UrlAt(text, p)
    /\ \A q \in 1..(p - 1) : ~UrlAt(text, q)
    /\ IsUrlFrom(text, p, url)

\* C17: a result carries a URL exactly when it is WEB_REQUIRED and the body of
\* the reply holds a URL, and the URL is then the first one of that body; a
\* body preview is attached only to an UNCATEGORIZED result in debug mode.
C17_UrlOnlyForWebRequired ==
  IsClassified =>
    /\ (ResultEntry.url # NoUrl) <=> (result.bucket = "web_required" /\ BodyHasUrl)
    /\ ResultEntry.url # NoUrl => IsFirstUrl(ResultBody, ResultEntry.url)
    /\ ResultEntry.has_preview => (result.bucket = "uncategorized" /\ debug_mode)


====
